---- MODULE Spec2Model ----
(***************************************************************************)
(* A model of the claim pricing engine (core/services/pricing_engine.py)   *)
(* together with the reference data it reads (core/models.py).              *)
(*                                                                         *)
(* One behaviour of the model is one call of PricingEngine.calculate_price *)
(* on one claim against one reference-data snapshot.  The snapshot and the  *)
(* claim are chosen in Init; the call then runs step by step: the contract  *)
(* lookup, the rule query, one loop iteration per ranked rule, and the      *)
(* final STOP/SUCCESS step, or the except-handler when an iteration raises. *)
(*                                                                         *)
(* Spec is that call.  RepeatSpec lets the call be made a second time on    *)
(* the same inputs; UnitSpec calls _check_conditions and _calculate_math on *)
(* one rule and one claim; MaintenanceSpec has a rule created, its          *)
(* conditions edited and calculate_score called between calls; FilterSpec  *)
(* is the call on a table that mixes rules in force with rules the query    *)
(* leaves out.                                                              *)
(***************************************************************************)
EXTENDS Integers, Sequences, FiniteSets, TLC

(***************************************************************************)
(* Bounds of the model.                                                    *)
(***************************************************************************)
\* largest number of PricingRule rows in a snapshot
MaxRules == 3
\* largest number of ProviderContract rows in a snapshot
MaxContracts == 2
\* largest number of PricingRuleCondition rows attached to one rule
MaxConditions == 2

(***************************************************************************)
(* Python values.                                                          *)
(*   None (of a Decimal-valued field or variable) is the empty tuple.       *)
(*   A Decimal is <<c, e>>, the number c * 10^(-e), kept in the canonical   *)
(*   form of its value (no trailing zero digits), so that two Decimals are  *)
(*   equal as TLA+ values exactly when Python's == holds between them.      *)
(*   None of a string-valued field is the string NullStr.                   *)
(***************************************************************************)
None == << >>
NullStr == "<None>"

RECURSIVE Norm(_)
Norm(d) ==
    IF d[1] = 0 THEN <<0, 0>>
    ELSE IF d[2] > 0 /\ d[1] % 10 = 0 THEN Norm(<<d[1] \div 10, d[2] - 1>>)
    ELSE d

Dec(c, e) == Norm(<<c, e>>)

MaxOf(a, b) == IF a >= b THEN a ELSE b

\* the coefficient of d at exponent e >= d[2]
Scaled(d, e) == d[1] * (10 ^ (e - d[2]))

\* Decimal.__add__, __sub__, __mul__, __gt__ and __bool__
DAdd(a, b) ==
    LET e == MaxOf(a[2], b[2]) IN Norm(<<Scaled(a, e) + Scaled(b, e), e>>)
DSub(a, b) ==
    LET e == MaxOf(a[2], b[2]) IN Norm(<<Scaled(a, e) - Scaled(b, e), e>>)
DMul(a, b) == Norm(<<a[1] * b[1], a[2] + b[2]>>)
DGt(a, b) ==
    LET e == MaxOf(a[2], b[2]) IN Scaled(a, e) > Scaled(b, e)
DLt(a, b) == DGt(b, a)
DLe(a, b) == ~DGt(a, b)
\* truthiness of an optional Decimal: None and zero are both false
Truthy(d) == d # None /\ d[1] # 0

Zero == Dec(0, 0)

(***************************************************************************)
(* Text of claim attributes and of condition values, and the conversions   *)
(* the engine applies to it: float(), Decimal(str()) and int().  The        *)
(* strings below are the vocabulary of the model; NumericText gives the     *)
(* number a numeric string denotes, IntegerText the strings int() accepts.  *)
(***************************************************************************)
NumericText ==
    [ s \in {"99213", "99000", "27447", "470", "0278", "0124", "50", "80",
             "1", "3", "-2", "500.00", "200.00", "8000.00", "10000.00",
             "20000.00", "0", "0.00", "1000.00", "-100.00"} |->
        CASE s = "99213"    -> Dec(99213, 0)
          [] s = "99000"    -> Dec(99000, 0)
          [] s = "27447"    -> Dec(27447, 0)
          [] s = "470"      -> Dec(470, 0)
          [] s = "0278"     -> Dec(278, 0)
          [] s = "0124"     -> Dec(124, 0)
          [] s = "50"       -> Dec(50, 0)
          [] s = "80"       -> Dec(80, 0)
          [] s = "1"        -> Dec(1, 0)
          [] s = "3"        -> Dec(3, 0)
          [] s = "-2"       -> Dec(-2, 0)
          [] s = "500.00"   -> Dec(500, 0)
          [] s = "200.00"   -> Dec(200, 0)
          [] s = "8000.00"  -> Dec(8000, 0)
          [] s = "10000.00" -> Dec(10000, 0)
          [] s = "20000.00" -> Dec(20000, 0)
          [] s = "0"        -> Dec(0, 0)
          [] s = "0.00"     -> Dec(0, 0)
          [] s = "1000.00"  -> Dec(1000, 0)
          [] s = "-100.00"  -> Dec(-100, 0) ]

IntegerText ==
    {"99213", "99000", "27447", "470", "0278", "0124", "50", "80", "1", "3",
     "-2", "0"}

\* float(x): a number, or a ValueError
FloatOk(s) == s \in DOMAIN NumericText
FloatOf(s) == NumericText[s]
\* Decimal(str(x)): a Decimal, or decimal.InvalidOperation
DecimalOk(s) == s \in DOMAIN NumericText
DecimalOf(s) == NumericText[s]
\* int(x): an integer, or a ValueError
IntOk(s) == s \in IntegerText
IntOf(s) == NumericText[s][1]

\* str.split(','): the elements of a comma-separated condition value
SplitComma(s) ==
    CASE s = "99999,T1015" -> {"99999", "T1015"}
      [] s = "INN,OON"     -> {"INN", "OON"}
      [] OTHER             -> {s}

\* dict.get(key) and dict.get(key, default) on the claim mapping
Get(claim, key, default) ==
    IF key \in DOMAIN claim THEN claim[key] ELSE default

(***************************************************************************)
(* Reference data: the rows of the tables the engine reads.                *)
(***************************************************************************)
\* effective_end_date IS NULL (dates are day numbers 1, 2, ...)
NoDate == 0

\* PricingRuleCondition rows
Cond(attr, op, val) ==
    [attribute_name |-> attr, operator |-> op, attribute_value |-> val]

\* FeeScheduleRate rows of the seeded fee schedule: (fee schedule, code) -> rate_amount
FeeScheduleRates ==
    [ k \in {<<"FS", "99213">>, <<"FS", "27447">>, <<"FS", "470">>} |->
        CASE k[2] = "99213" -> Dec(8500, 2)
          [] k[2] = "27447" -> Dec(125000, 2)
          [] k[2] = "470"   -> Dec(205, 2) ]

\* (mutation) calculate_score without the test of the operator
ConditionPoints_anyop(cond) ==
    IF cond.attribute_name = "code" THEN 1000
    ELSE IF cond.attribute_name = "modifier" THEN 500
    ELSE IF cond.attribute_name = "rev_code" THEN 10
    ELSE IF cond.attribute_name = "provider_id" THEN 5
    ELSE 0

\* PricingRule.calculate_score: the points of one condition, and their sum
ConditionPoints(cond) ==
    IF cond.attribute_name = "code"
    THEN (IF cond.operator = "EQ" THEN 1000 ELSE 100)
    ELSE IF cond.attribute_name = "modifier" THEN 500
    ELSE IF cond.attribute_name = "rev_code" THEN 10
    ELSE IF cond.attribute_name = "provider_id" THEN 5
    ELSE 0

RECURSIVE SumPoints(_)
SumPoints(conds) ==
    IF conds = << >> THEN 0
    ELSE ConditionPoints(Head(conds)) + SumPoints(Tail(conds))

calculate_score(conds) == SumPoints(conds)

\* A PricingRule row; specificity_score is the value calculate_score stored
\* when the rule was seeded.
Rule(id, contract, type, method, fs, mult, flat, thr, status, start, end, conds) ==
    [pricing_rule_id |-> id, contract |-> contract, rule_type |-> type,
     methodology |-> method, base_fee_schedule |-> fs, multiplier |-> mult,
     flat_rate |-> flat, threshold_amount |-> thr, status |-> status,
     effective_start_date |-> start, effective_end_date |-> end,
     conditions |-> conds, specificity_score |-> calculate_score(conds)]

\* The seeded rules (seed_data.py, rebuild_world.py) ...
SeededRules ==
    { Rule("knee", 1, "BASE", "RBRVS", "FS", Dec(150, 2), None, None,
           "ACTIVE", 1, NoDate, <<Cond("code", "EQ", "27447")>>),
      Rule("visit", 1, "BASE", "RBRVS", "FS", Dec(150, 2), None, None,
           "ACTIVE", 1, NoDate, <<Cond("code", "EQ", "99213")>>),
      Rule("office", 1, "BASE", "RBRVS", "FS", Dec(110, 2), None, None,
           "ACTIVE", 1, NoDate, <<Cond("code", "GT", "99000")>>),
      Rule("implant", 1, "ADD_ON", "FLAT_RATE", NullStr, None, Dec(50000, 2), None,
           "ACTIVE", 1, NoDate, <<Cond("rev_code", "EQ", "0278")>>),
      Rule("psych", 1, "BASE", "PER_DIEM", NullStr, None, Dec(125000, 2), None,
           "ACTIVE", 1, NoDate, <<Cond("rev_code", "EQ", "0124")>>),
      Rule("bilateral", 1, "ADJUSTMENT", "RBRVS", NullStr, Dec(150, 2), None, None,
           "ACTIVE", 1, NoDate, <<Cond("modifier", "EQ", "50")>>),
      Rule("stoploss", 1, "STOP_LOSS", "FLAT_RATE", NullStr, Dec(50, 2), None,
           Dec(1000000, 2),
           "ACTIVE", 1, NoDate, <<Cond("rev_code", "EQ", "0278")>>),
      Rule("drg", 1, "BASE", "DRG", "FS", None, Dec(1000000, 2), None,
           "ACTIVE", 1, NoDate, <<Cond("code", "EQ", "470")>>) }

\* ... and further rows that the schema of PricingRule admits: nullable
\* multiplier and flat_rate, every rule_type and methodology, any status.
OtherRules ==
    { Rule("supply", 1, "ADD_ON", "FLAT_RATE", NullStr, None, Dec(2500, 2), None,
           "ACTIVE", 1, NoDate, << >>),
      Rule("blank", 1, "BASE", "FLAT_RATE", NullStr, None, None, None,
           "ACTIVE", 1, NoDate, << >>),
      Rule("cap", 1, "CAP", "FLAT_RATE", NullStr, None, Dec(10000, 2), None,
           "ACTIVE", 1, NoDate, << >>),
      Rule("denied", 1, "ADJUSTMENT", "FLAT_RATE", NullStr, Dec(0, 4), None, None,
           "ACTIVE", 1, NoDate, <<Cond("modifier", "EQ", "50")>>),
      Rule("outlier", 1, "STOP_LOSS", "FLAT_RATE", NullStr, None, None, None,
           "ACTIVE", 1, NoDate, <<Cond("rev_code", "EQ", "0278")>>),
      Rule("unlisted", 1, "BASE", "PERCENT_BILLED", NullStr, Dec(45, 2), None, None,
           "ACTIVE", 1, NoDate, <<Cond("code", "IN", "99999,T1015")>>),
      Rule("nofs", 1, "BASE", "RBRVS", NullStr, Dec(150, 2), None, None,
           "ACTIVE", 1, NoDate, <<Cond("code", "LT", "99000")>>),
      Rule("oon", 1, "BASE", "RBRVS", "FS", Dec(100, 2), None, None,
           "ACTIVE", 1, NoDate, <<Cond("network_status", "EQ", "OON")>>),
      Rule("draft", 1, "BASE", "FLAT_RATE", NullStr, None, Dec(7700, 2), None,
           "DRAFT", 1, NoDate, << >>),
      Rule("lapsed", 1, "ADD_ON", "FLAT_RATE", NullStr, None, Dec(7700, 2), None,
           "ACTIVE", 1, 2, << >>),
      Rule("legacy", 2, "BASE", "FLAT_RATE", NullStr, None, Dec(5000, 2), None,
           "ACTIVE", 1, NoDate, << >>),
      Rule("noweight", 1, "ADD_ON", "DRG", "FS", None, Dec(1000000, 2), None,
           "ACTIVE", 1, NoDate, <<Cond("code", "IN", "99999,T1015")>>) }

RuleCatalogue == SeededRules \cup OtherRules

\* ProviderContract rows
Contract(id, org, status, start, end) ==
    [contract_id |-> id, provider_org |-> org, status |-> status,
     effective_start_date |-> start, effective_end_date |-> end]

ContractCatalogue ==
    { Contract(1, "AHN", "ACTIVE", 1, NoDate),
      Contract(2, "AHN", "ACTIVE", 1, 2),
      Contract(3, "AHN", "DRAFT", 1, NoDate),
      Contract(4, "UPMC", "ACTIVE", 1, NoDate),
      Contract(5, "AHN", "ACTIVE", 5, NoDate),
      Contract(6, "AHN", "ACTIVE", 2, 2),
      Contract(7, "AHN", "ACTIVE", 3, 3) }

\* Claims: flat attribute mappings; no attribute is mandatory except the two
\* the contract lookup is keyed on.
ClaimOf(extra) ==
    [k \in {"provider_id", "date_of_service"} \cup DOMAIN extra |->
        IF k = "provider_id" THEN "AHN"
        ELSE IF k = "date_of_service" THEN 3
        ELSE extra[k]]

Claims ==
    { ClaimOf([code |-> "99213", billed_amount |-> "500.00"]),
      ClaimOf([code |-> "99213", modifier |-> "50", billed_amount |-> "500.00"]),
      ClaimOf([code |-> "99213", billed_amount |-> "200.00", network_status |-> "OON"]),
      ClaimOf([code |-> "27447", modifier |-> "80"]),
      ClaimOf([code |-> "470", billed_amount |-> "20000.00"]),
      ClaimOf([code |-> "T1015", billed_amount |-> "200.00", network_status |-> "OON"]),
      ClaimOf([code |-> "T1015", billed_amount |-> "n/a"]),
      ClaimOf([rev_code |-> "0278", billed_amount |-> "10000.00"]),
      ClaimOf([rev_code |-> "0278", billed_amount |-> "20000.00"]),
      ClaimOf([rev_code |-> "0278", billed_amount |-> "n/a"]),
      ClaimOf([rev_code |-> "0278"]),
      ClaimOf([rev_code |-> "0124", units |-> "3", billed_amount |-> "8000.00"]),
      ClaimOf([rev_code |-> "0124", units |-> "three"]),
      ClaimOf([rev_code |-> "0124", units |-> "-2"]),
      ClaimOf([rev_code |-> "0124"]),
      ClaimOf([modifier |-> "50"]) }

(***************************************************************************)
(* The state: the reference-data snapshot, the claim, the clock, and one    *)
(* call of calculate_price on them.                                         *)
(***************************************************************************)
VARIABLES
    db_contracts,       \* the ProviderContract table
    db_rules,           \* the PricingRule table (with each rule's conditions)
    claim_data,         \* the argument of calculate_price
    now,                \* the reading of the clock during the call
    first_result,       \* what an earlier call on the same inputs returned (<< >> when none)
    pc,                 \* where the call is: "start", "find_contract", "loop", "done", "raised"
    logs,               \* trace.logs
    rule_applied,       \* trace.rule_applied
    final_price,        \* trace.final_price
    contract,           \* the contract the lookup returned ({} when none)
    rules,              \* the queryset, in the order the loop iterates it
    idx,                \* the position of the next rule in rules
    total_price,        \* the running total of the loop
    base_rule_applied,  \* the base-slot flag of the loop
    result              \* the value returned to the caller

vars == <<db_contracts, db_rules, claim_data, now, first_result, pc, logs,
          rule_applied, final_price, contract, rules, idx, total_price,
          base_rule_applied, result>>

snapshot == <<db_contracts, db_rules, claim_data>>
history == <<now, first_result>>

(***************************************************************************)
(* PricingTrace.log: one trace record.  The message is kept as the name of  *)
(* its template (text) and the values formatted into it (args); timestamp   *)
(* is datetime.now(), one reading of the clock per call.                    *)
(***************************************************************************)
Entry(step, text, args) ==
    [step |-> step, text |-> text, args |-> args, timestamp |-> now]

(***************************************************************************)
(* PricingEngine._check_conditions                                         *)
(***************************************************************************)
\* (mutation) the lookup without the default of network_status
ClaimValue_nodefault(cond, claim) == Get(claim, cond.attribute_name, NullStr)

\* the claim value one condition is compared with (None when absent)
ClaimValue(cond, claim) ==
    IF cond.attribute_name = "network_status"
    THEN Get(claim, "network_status", "INN")
    ELSE Get(claim, cond.attribute_name, NullStr)

\* the outcome of one operator; str() of a text value is the text itself
OperatorMatches(op, claim_val, rule_val) ==
    CASE op = "EQ" -> claim_val = rule_val
      [] op = "GT" -> /\ FloatOk(claim_val) /\ FloatOk(rule_val)
                      /\ DGt(FloatOf(claim_val), FloatOf(rule_val))
      [] op = "LT" -> /\ FloatOk(claim_val) /\ FloatOk(rule_val)
                      /\ DLt(FloatOf(claim_val), FloatOf(rule_val))
      [] op = "IN" -> claim_val \in SplitComma(rule_val)
      [] OTHER     -> FALSE

ConditionMatches(cond, claim) ==
    LET claim_val == ClaimValue(cond, claim) IN
    IF claim_val = NullStr THEN FALSE
    ELSE OperatorMatches(cond.operator, claim_val, cond.attribute_value)

RECURSIVE AllMatch(_, _)
AllMatch(conds, claim) ==
    IF conds = << >> THEN TRUE
    ELSE IF ~ConditionMatches(Head(conds), claim) THEN FALSE
    ELSE AllMatch(Tail(conds), claim)

check_conditions(rule, claim) == AllMatch(rule.conditions, claim)

(***************************************************************************)
(* PricingEngine._calculate_math.  The outcome of a computation that may    *)
(* raise is a record: exc is the exception class raised ("" when none),     *)
(* logs the trace records it appended, price the value it returned.         *)
(***************************************************************************)
Returned(price, entries) == [exc |-> "", price |-> price, logs |-> entries]
Raised(exc, entries) == [exc |-> exc, price |-> None, logs |-> entries]

\* FeeScheduleRate.objects.get(fee_schedule=..., code__code=...)
RateExists(fs, code) == <<fs, code>> \in DOMAIN FeeScheduleRates
RateAmount(fs, code) == FeeScheduleRates[<<fs, code>>]

MathFlatRate(rule, claim) == Returned(rule.flat_rate, << >>)

MathPerDiem(rule, claim) ==
    LET raw == Get(claim, "units", "1") IN
    IF ~IntOk(raw) THEN Raised("ValueError", << >>)
    ELSE IF rule.flat_rate = None THEN Raised("TypeError", << >>)
    ELSE Returned(DMul(rule.flat_rate, Dec(IntOf(raw), 0)), << >>)

\* (mutation) RBRVS without the test of the fee schedule and without the
\* handler of FeeScheduleRate.DoesNotExist
MathRBRVS_unguarded(rule, claim) ==
    LET code == Get(claim, "code", NullStr) IN
    IF ~RateExists(rule.base_fee_schedule, code) THEN Raised("DoesNotExist", << >>)
    ELSE LET base_rate == RateAmount(rule.base_fee_schedule, code)
             multiplier == IF Truthy(rule.multiplier) THEN rule.multiplier
                           ELSE Dec(10, 1)
             price == DMul(base_rate, multiplier)
         IN Returned(price,
                     <<Entry("CALC", "Strategy: RBRVS", <<base_rate, multiplier, price>>)>>)

MathRBRVS(rule, claim) ==
    LET code == Get(claim, "code", NullStr) IN
    IF rule.base_fee_schedule = NullStr
    THEN Returned(Zero, <<Entry("ERROR", "Rule missing base fee schedule", << >>)>>)
    ELSE IF ~RateExists(rule.base_fee_schedule, code)
    THEN Returned(Zero, <<Entry("ERROR", "Code not found in Fee Schedule", <<code>>)>>)
    ELSE LET base_rate == RateAmount(rule.base_fee_schedule, code)
             multiplier == IF Truthy(rule.multiplier) THEN rule.multiplier
                           ELSE Dec(10, 1)
             price == DMul(base_rate, multiplier)
         IN Returned(price,
                     <<Entry("CALC", "Strategy: RBRVS", <<base_rate, multiplier, price>>)>>)

MathDRG(rule, claim) ==
    LET drg_code == Get(claim, "code", NullStr) IN
    IF rule.base_fee_schedule = NullStr
    THEN Returned(Zero,
                  <<Entry("ERROR", "Rule missing base fee schedule for DRG lookup.", << >>)>>)
    ELSE IF ~RateExists(rule.base_fee_schedule, drg_code)
    THEN Returned(Zero,
                  <<Entry("ERROR", "DRG Weight not found in Fee Schedule.", <<drg_code>>)>>)
    ELSE IF rule.flat_rate = None THEN Raised("TypeError", << >>)
    ELSE LET drg_weight == RateAmount(rule.base_fee_schedule, drg_code)
             price == DMul(rule.flat_rate, drg_weight)
         IN Returned(price,
                     <<Entry("CALC", "Strategy: DRG", <<rule.flat_rate, drg_weight, price>>)>>)

MathPercentBilled(rule, claim) ==
    LET raw == Get(claim, "billed_amount", "0.00") IN
    IF ~DecimalOk(raw)
    THEN Returned(Zero, <<Entry("ERROR", "Failed to calculate % Billed", <<"InvalidOperation">>)>>)
    ELSE IF rule.multiplier = None
    THEN Returned(Zero, <<Entry("ERROR", "Failed to calculate % Billed", <<"TypeError">>)>>)
    ELSE LET billed == DecimalOf(raw)
             price == DMul(billed, rule.multiplier)
         IN Returned(price,
                     <<Entry("CALC", "Strategy: % Billed", <<billed, rule.multiplier, price>>)>>)

calculate_math(rule, claim) ==
    CASE rule.methodology = "FLAT_RATE"      -> MathFlatRate(rule, claim)
      [] rule.methodology = "PER_DIEM"       -> MathPerDiem(rule, claim)
      [] rule.methodology = "RBRVS"          -> MathRBRVS(rule, claim)
      [] rule.methodology = "DRG"            -> MathDRG(rule, claim)
      [] rule.methodology = "PERCENT_BILLED" -> MathPercentBilled(rule, claim)
      [] OTHER                               -> Returned(Zero, << >>)

(***************************************************************************)
(* One iteration of the accumulator loop of calculate_price, as a function  *)
(* of the loop state acc = [total_price, base_rule_applied, rule_applied].  *)
(* The outcome carries the new loop state, the trace records appended and   *)
(* the exception class raised, if any (the loop state is then unchanged).   *)
(***************************************************************************)
Acc(total, base, applied) ==
    [total_price |-> total, base_rule_applied |-> base, rule_applied |-> applied]

Outcome(acc, entries) == [exc |-> "", acc |-> acc, logs |-> entries]
Failure(exc, acc, entries) == [exc |-> exc, acc |-> acc, logs |-> entries]

\* (mutation) the BASE branch taking the slot only for a price that is not 0
ApplyBase_nonzero(rule, claim, acc) ==
    IF acc.base_rule_applied
    THEN Outcome(acc, <<Entry("SKIP", "Higher score Base already applied",
                              <<rule.specificity_score>>)>>)
    ELSE LET m == calculate_math(rule, claim) IN
         IF m.exc # "" THEN Failure(m.exc, acc, m.logs)
         ELSE IF m.price = None THEN Failure("TypeError", acc, m.logs)
         ELSE Outcome(Acc(DAdd(acc.total_price, m.price), Truthy(m.price),
                          IF Truthy(m.price) THEN rule.pricing_rule_id
                          ELSE acc.rule_applied),
                      m.logs \o <<Entry("ACCUM", "[BASE] Added",
                                        <<rule.specificity_score, m.price>>)>>)

\* (mutation) the BASE branch without the base_rule_applied test
ApplyBase_noslot(rule, claim, acc) ==
    LET m == calculate_math(rule, claim) IN
    IF m.exc # "" THEN Failure(m.exc, acc, m.logs)
    ELSE IF m.price = None THEN Failure("TypeError", acc, m.logs)
    ELSE Outcome(Acc(DAdd(acc.total_price, m.price), TRUE, rule.pricing_rule_id),
                 m.logs \o <<Entry("ACCUM", "[BASE] Added",
                                   <<rule.specificity_score, m.price>>)>>)

\* rule_type == 'BASE'
ApplyBase(rule, claim, acc) ==
    IF acc.base_rule_applied
    THEN Outcome(acc, <<Entry("SKIP", "Higher score Base already applied",
                              <<rule.specificity_score>>)>>)
    ELSE LET m == calculate_math(rule, claim) IN
         IF m.exc # "" THEN Failure(m.exc, acc, m.logs)
         ELSE IF m.price = None THEN Failure("TypeError", acc, m.logs)
         ELSE Outcome(Acc(DAdd(acc.total_price, m.price), TRUE, rule.pricing_rule_id),
                      m.logs \o <<Entry("ACCUM", "[BASE] Added",
                                        <<rule.specificity_score, m.price>>)>>)

\* (mutation) the ADD_ON branch taking the base slot, as the BASE branch does
ApplyAddOn_slot(rule, claim, acc) ==
    LET m == calculate_math(rule, claim) IN
    IF m.exc # "" THEN Failure(m.exc, acc, m.logs)
    ELSE IF m.price = None THEN Failure("TypeError", acc, m.logs)
    ELSE Outcome(Acc(DAdd(acc.total_price, m.price), TRUE, acc.rule_applied),
                 m.logs \o <<Entry("ACCUM", "[ADD-ON] Added",
                                   <<rule.specificity_score, m.price>>)>>)

\* rule_type == 'ADD_ON'
ApplyAddOn(rule, claim, acc) ==
    LET m == calculate_math(rule, claim) IN
    IF m.exc # "" THEN Failure(m.exc, acc, m.logs)
    ELSE IF m.price = None THEN Failure("TypeError", acc, m.logs)
    ELSE Outcome(Acc(DAdd(acc.total_price, m.price), acc.base_rule_applied,
                     acc.rule_applied),
                 m.logs \o <<Entry("ACCUM", "[ADD-ON] Added",
                                   <<rule.specificity_score, m.price>>)>>)

\* rule_type == 'ADJUSTMENT'
ApplyAdjustment(rule, claim, acc) ==
    LET factor == rule.multiplier IN
    IF Truthy(factor)
    THEN LET old_price == acc.total_price
             new_price == DMul(old_price, factor)
         IN Outcome(Acc(new_price, acc.base_rule_applied, acc.rule_applied),
                    <<Entry("ADJUST", "Multiplier",
                            <<rule.specificity_score, factor, old_price, new_price>>)>>)
    ELSE Outcome(acc, << >>)

\* (mutation) the STOP_LOSS branch with `>=` in place of `>`
ApplyStopLoss_atleast(rule, claim, acc) ==
    LET raw == Get(claim, "billed_amount", "0") IN
    IF ~DecimalOk(raw) THEN Failure("InvalidOperation", acc, << >>)
    ELSE LET billed == DecimalOf(raw)
             threshold == IF Truthy(rule.threshold_amount)
                          THEN rule.threshold_amount ELSE Zero
         IN IF ~DGt(threshold, billed)
            THEN IF rule.multiplier = None THEN Failure("TypeError", acc, << >>)
                 ELSE LET excess == DSub(billed, threshold)
                          outlier_payment == DMul(excess, rule.multiplier)
                      IN Outcome(Acc(DAdd(acc.total_price, outlier_payment),
                                     acc.base_rule_applied, acc.rule_applied),
                                 <<Entry("OUTLIER", "Paying excess",
                                         <<billed, threshold, outlier_payment>>)>>)
            ELSE Outcome(acc, <<Entry("SKIP", "Stop Loss threshold not met",
                                      <<threshold>>)>>)

\* rule_type == 'STOP_LOSS'
ApplyStopLoss(rule, claim, acc) ==
    LET raw == Get(claim, "billed_amount", "0") IN
    IF ~DecimalOk(raw) THEN Failure("InvalidOperation", acc, << >>)
    ELSE LET billed == DecimalOf(raw)
             threshold == IF Truthy(rule.threshold_amount)
                          THEN rule.threshold_amount ELSE Zero
         IN IF DGt(billed, threshold)
            THEN IF rule.multiplier = None THEN Failure("TypeError", acc, << >>)
                 ELSE LET excess == DSub(billed, threshold)
                          outlier_payment == DMul(excess, rule.multiplier)
                      IN Outcome(Acc(DAdd(acc.total_price, outlier_payment),
                                     acc.base_rule_applied, acc.rule_applied),
                                 <<Entry("OUTLIER", "Paying excess",
                                         <<billed, threshold, outlier_payment>>)>>)
            ELSE Outcome(acc, <<Entry("SKIP", "Stop Loss threshold not met",
                                      <<threshold>>)>>)

\* the body of `for rule in rules:`; a rule_type without a branch (CAP) and a
\* rule whose conditions do not match leave the loop state and the trace alone
ApplyRule(rule, claim, acc) ==
    IF ~check_conditions(rule, claim) THEN Outcome(acc, << >>)
    ELSE CASE rule.rule_type = "BASE"       -> ApplyBase(rule, claim, acc)
           [] rule.rule_type = "ADD_ON"     -> ApplyAddOn(rule, claim, acc)
           [] rule.rule_type = "ADJUSTMENT" -> ApplyAdjustment(rule, claim, acc)
           [] rule.rule_type = "STOP_LOSS"  -> ApplyStopLoss(rule, claim, acc)
           [] OTHER                         -> Outcome(acc, << >>)

(***************************************************************************)
(* The two queries of calculate_price.                                     *)
(***************************************************************************)
\* ProviderContract.objects.get(...): the rows the filter of the get selects
ContractMatches(c, provider_id, dos) ==
    /\ c.provider_org = provider_id
    /\ c.status = "ACTIVE"
    /\ c.effective_start_date <= dos

MatchingContracts(contracts, provider_id, dos) ==
    {c \in contracts : ContractMatches(c, provider_id, dos)}

\* (mutation) the rule query without `status='ACTIVE'`
RuleApplicable_anystatus(r, c, dos) ==
    /\ r.contract = c.contract_id
    /\ r.effective_start_date <= dos
    /\ (r.effective_end_date >= dos \/ r.effective_end_date = NoDate)

\* PricingRule.objects.filter(...).filter(...): the rows the query selects
RuleApplicable(r, c, dos) ==
    /\ r.contract = c.contract_id
    /\ r.status = "ACTIVE"
    /\ r.effective_start_date <= dos
    /\ (r.effective_end_date >= dos \/ r.effective_end_date = NoDate)

ApplicableRules(rows, c, dos) ==
    {r \in rows : RuleApplicable(r, c, dos)}

\* .order_by('-specificity_score'): a sequence of the rows in non-increasing
\* score order; the order of rows of equal score is the database's choice
IsRanked(seq) ==
    \A i \in 1..(Len(seq) - 1) :
        seq[i].specificity_score >= seq[i + 1].specificity_score

Rankings(rows) ==
    {seq \in [1..Cardinality(rows) -> rows] :
        /\ \A r \in rows : \E i \in DOMAIN seq : seq[i] = r
        /\ IsRanked(seq)}

(***************************************************************************)
(* The snapshots and the calls.                                            *)
(***************************************************************************)
\* the snapshots and claims of the model: either the seeded contract with any
\* rules of the catalogue and any claim, or any contracts with the rules that
\* need no claim attribute
StandardContracts == {Contract(1, "AHN", "ACTIVE", 1, NoDate)}
PlainRules == {r \in RuleCatalogue : r.conditions = << >> /\ r.rule_type # "CAP"}
PlainClaims == {c \in Claims : DOMAIN c = {"provider_id", "date_of_service", "rev_code"}}

\* the subsets of S of at most n elements
RECURSIVE SubsetsUpTo(_, _)
SubsetsUpTo(S, n) ==
    IF n = 0 THEN {{}}
    ELSE LET smaller == SubsetsUpTo(S, n - 1)
         IN smaller \cup {T \cup {x} : T \in smaller, x \in S}

SeededSnapshots ==
    {StandardContracts} \X SubsetsUpTo(RuleCatalogue, MaxRules) \X Claims

ContractSnapshots ==
    SubsetsUpTo(ContractCatalogue, MaxContracts)
        \X SubsetsUpTo(PlainRules, MaxRules) \X PlainClaims

Snapshots == SeededSnapshots \cup ContractSnapshots

\* PricingTrace.__init__ and the state before the call
Init ==
    /\ \E s \in Snapshots :
          /\ db_contracts = s[1]
          /\ db_rules = s[2]
          /\ claim_data = s[3]
    /\ now = 1
    /\ first_result = << >>
    /\ pc = "start"
    /\ logs = << >>
    /\ rule_applied = NullStr
    /\ final_price = Zero
    /\ contract = {}
    /\ rules = << >>
    /\ idx = 1
    /\ total_price = Zero
    /\ base_rule_applied = FALSE
    /\ result = << >>

\* PricingTrace.to_dict
to_dict(price, applied, trace) ==
    [allowed_amount |-> price, rule_applied |-> applied, trace |-> trace]

\* (mutation) the except-handler returning the total accumulated so far
error_dict_total(exc, trace) ==
    [allowed_amount |-> total_price, status |-> "ERROR", error_message |-> exc,
     trace |-> trace]

\* the dict the except-handler returns
error_dict(exc, trace) ==
    [allowed_amount |-> Zero, status |-> "ERROR", error_message |-> exc,
     trace |-> trace]

\* (mutation) `except (TypeError, ValueError)` in place of `except Exception`
ExceptionCaught_narrow(exc) == exc \in {"TypeError", "ValueError"}

\* `except Exception`: the classes the handler of calculate_price catches
ExceptionCaught(exc) ==
    exc \in {"TypeError", "ValueError", "InvalidOperation", "DoesNotExist"}

provider_id == Get(claim_data, "provider_id", NullStr)
dos == Get(claim_data, "date_of_service", NoDate)

\* trace = PricingTrace(); trace.log("INIT", ...)
Begin ==
    /\ pc = "start"
    /\ logs' = <<Entry("INIT", "Pricing Claim for Provider", <<provider_id>>)>>
    /\ pc' = "find_contract"
    /\ UNCHANGED <<snapshot, history, rule_applied, final_price, contract, rules, idx,
                   total_price, base_rule_applied, result>>

\* _find_active_contract raises DoesNotExist: return None; the caller logs STOP
ContractNotFound ==
    /\ pc = "find_contract"
    /\ MatchingContracts(db_contracts, provider_id, dos) = {}
    /\ logs' = Append(logs, Entry("STOP", "No Active Contract found for this Provider/DOS.", << >>))
    /\ result' = to_dict(final_price, rule_applied, logs')
    /\ pc' = "done"
    /\ UNCHANGED <<snapshot, history, rule_applied, final_price, contract, rules, idx,
                   total_price, base_rule_applied>>

\* _find_active_contract raises MultipleObjectsReturned: log ERROR, return None
ContractAmbiguous ==
    /\ pc = "find_contract"
    /\ Cardinality(MatchingContracts(db_contracts, provider_id, dos)) > 1
    /\ logs' = logs \o
          <<Entry("ERROR", "Multiple active contracts found. Ambiguous.", << >>),
            Entry("STOP", "No Active Contract found for this Provider/DOS.", << >>)>>
    /\ result' = to_dict(final_price, rule_applied, logs')
    /\ pc' = "done"
    /\ UNCHANGED <<snapshot, history, rule_applied, final_price, contract, rules, idx,
                   total_price, base_rule_applied>>

\* _find_active_contract returns the contract; the rules are queried
ContractFound ==
    /\ pc = "find_contract"
    /\ \E c \in MatchingContracts(db_contracts, provider_id, dos) :
          /\ MatchingContracts(db_contracts, provider_id, dos) = {c}
          /\ contract' = {c}
          /\ \E seq \in Rankings(ApplicableRules(db_rules, c, dos)) :
                /\ rules' = seq
                /\ logs' = logs \o <<Entry("CONTRACT", "Using Contract", <<c.contract_id>>)>>
                                \o (IF seq = << >>
                                    THEN <<Entry("WARN", "No rules found.", << >>)>>
                                    ELSE << >>)
    /\ total_price' = Zero
    /\ base_rule_applied' = FALSE
    /\ idx' = 1
    /\ pc' = "loop"
    /\ UNCHANGED <<snapshot, history, rule_applied, final_price, result>>

\* one iteration of the loop that completes
Iterate ==
    /\ pc = "loop"
    /\ idx <= Len(rules)
    /\ LET out == ApplyRule(rules[idx], claim_data,
                            Acc(total_price, base_rule_applied, rule_applied))
       IN /\ out.exc = ""
          /\ total_price' = out.acc.total_price
          /\ base_rule_applied' = out.acc.base_rule_applied
          /\ rule_applied' = out.acc.rule_applied
          /\ logs' = logs \o out.logs
    /\ idx' = idx + 1
    /\ UNCHANGED <<snapshot, history, pc, final_price, contract, rules, result>>

\* one iteration that raises: the except-handler of calculate_price
IterateRaises ==
    /\ pc = "loop"
    /\ idx <= Len(rules)
    /\ LET out == ApplyRule(rules[idx], claim_data,
                            Acc(total_price, base_rule_applied, rule_applied))
       IN /\ out.exc # ""
          /\ IF ExceptionCaught(out.exc)
             THEN /\ logs' = logs \o out.logs \o
                        <<Entry("CRITICAL", "Engine Crash", <<out.exc>>)>>
                  /\ result' = error_dict(out.exc, logs')
                  /\ pc' = "done"
             ELSE /\ logs' = logs \o out.logs
                  /\ result' = result
                  /\ pc' = "raised"
    /\ UNCHANGED <<snapshot, history, rule_applied, final_price, contract, rules, idx,
                   total_price, base_rule_applied>>

\* (mutation) `and base_rule_applied` in place of `and not base_rule_applied`
NothingApplied_flag(total, base) == total = Zero /\ base

\* `if total_price == 0 and not base_rule_applied`
NothingApplied(total, base) == total = Zero /\ ~base

\* after the loop: STOP or SUCCESS, and return trace.to_dict()
Finish ==
    /\ pc = "loop"
    /\ idx > Len(rules)
    /\ IF NothingApplied(total_price, base_rule_applied)
       THEN /\ logs' = Append(logs, Entry("STOP", "No applicable rules matched.", << >>))
            /\ final_price' = final_price
       ELSE /\ final_price' = total_price
            /\ logs' = Append(logs, Entry("SUCCESS", "Final Stacked Price", <<total_price>>))
    /\ result' = to_dict(final_price', rule_applied, logs')
    /\ pc' = "done"
    /\ UNCHANGED <<snapshot, history, rule_applied, contract, rules, idx, total_price,
                   base_rule_applied>>

Next ==
    \/ Begin
    \/ ContractNotFound
    \/ ContractAmbiguous
    \/ ContractFound
    \/ Iterate
    \/ IterateRaises
    \/ Finish

Spec == Init /\ [][Next]_vars

\* a later call of calculate_price with the same claim on the same snapshot:
\* a new PricingTrace, a later reading of the clock
CallAgain ==
    /\ pc = "done"
    /\ first_result = << >>
    /\ first_result' = result
    /\ now' = now + 1
    /\ pc' = "start"
    /\ logs' = << >>
    /\ rule_applied' = NullStr
    /\ final_price' = Zero
    /\ contract' = {}
    /\ rules' = << >>
    /\ idx' = 1
    /\ total_price' = Zero
    /\ base_rule_applied' = FALSE
    /\ result' = << >>
    /\ UNCHANGED snapshot

NextRepeat ==
    \/ Next
    \/ CallAgain

RepeatSpec == Init /\ [][NextRepeat]_vars

(***************************************************************************)
(* The components called on their own: one call of _check_conditions or of  *)
(* _calculate_math on one rule and one claim.  The rule is rules[1]; the    *)
(* value returned is left in result.                                        *)
(***************************************************************************)
\* further rows and claims the components accept
UnitRules ==
    RuleCatalogue \cup
    { Rule("waived", 1, "BASE", "RBRVS", "FS", Dec(0, 4), None, None,
           "ACTIVE", 1, NoDate, <<Cond("code", "EQ", "27447")>>),
      Rule("listed", 1, "BASE", "RBRVS", "FS", None, None, None,
           "ACTIVE", 1, NoDate, <<Cond("code", "EQ", "99213")>>),
      Rule("ungrouped", 1, "BASE", "DRG", NullStr, None, Dec(1000000, 2), None,
           "ACTIVE", 1, NoDate, <<Cond("code", "EQ", "470")>>),
      Rule("daily", 1, "ADD_ON", "PER_DIEM", NullStr, None, Dec(10000, 2), None,
           "ACTIVE", 1, NoDate, <<Cond("rev_code", "EQ", "0124")>>),
      Rule("share", 1, "ADD_ON", "PERCENT_BILLED", NullStr, Dec(1000, 4), None, None,
           "ACTIVE", 1, NoDate, << >>),
      Rule("noshare", 1, "ADD_ON", "PERCENT_BILLED", NullStr, None, None, None,
           "ACTIVE", 1, NoDate, << >>),
      Rule("inn", 1, "BASE", "RBRVS", "FS", Dec(100, 2), None, None,
           "ACTIVE", 1, NoDate, <<Cond("network_status", "EQ", "INN")>>),
      Rule("anynet", 1, "ADD_ON", "FLAT_RATE", NullStr, None, Dec(1000, 2), None,
           "ACTIVE", 1, NoDate, <<Cond("network_status", "IN", "INN,OON")>>),
      Rule("badrange", 1, "BASE", "FLAT_RATE", NullStr, None, Dec(1000, 2), None,
           "ACTIVE", 1, NoDate, <<Cond("code", "GT", "T1000")>>),
      Rule("both", 1, "BASE", "FLAT_RATE", NullStr, None, Dec(1000, 2), None,
           "ACTIVE", 1, NoDate,
           <<Cond("code", "EQ", "99213"), Cond("modifier", "EQ", "50")>>),
      Rule("either", 1, "BASE", "FLAT_RATE", NullStr, None, Dec(1000, 2), None,
           "ACTIVE", 1, NoDate,
           <<Cond("modifier", "EQ", "50"), Cond("code", "LT", "99000")>>) }

UnitClaims ==
    Claims \cup
    { ClaimOf([code |-> "T1015", billed_amount |-> "1000.00"]),
      ClaimOf([code |-> "T1015", billed_amount |-> "-100.00"]),
      ClaimOf([rev_code |-> "0124", units |-> "0"]),
      ClaimOf([rev_code |-> "0124", units |-> "1"]) }

UnitInit ==
    /\ db_contracts = StandardContracts
    /\ \E r \in UnitRules, c \in UnitClaims :
          /\ db_rules = {r}
          /\ rules = <<r>>
          /\ claim_data = c
    /\ now = 1
    /\ first_result = << >>
    /\ pc = "unit"
    /\ logs = << >>
    /\ rule_applied = NullStr
    /\ final_price = Zero
    /\ contract = StandardContracts
    /\ idx = 1
    /\ total_price = Zero
    /\ base_rule_applied = FALSE
    /\ result = << >>

\* self._check_conditions(rule, claim_data)
CheckConditions ==
    /\ pc = "unit"
    /\ result' = [matched |-> check_conditions(rules[idx], claim_data)]
    /\ pc' = "checked"
    /\ UNCHANGED <<snapshot, history, logs, rule_applied, final_price, contract,
                   rules, idx, total_price, base_rule_applied>>

\* self._calculate_math(rule, claim_data, trace)
CalculateMath ==
    /\ pc = "unit"
    /\ LET m == calculate_math(rules[idx], claim_data)
       IN /\ result' = m
          /\ logs' = logs \o m.logs
    /\ pc' = "calculated"
    /\ UNCHANGED <<snapshot, history, rule_applied, final_price, contract,
                   rules, idx, total_price, base_rule_applied>>

UnitNext ==
    \/ CheckConditions
    \/ CalculateMath

UnitSpec == UnitInit /\ [][UnitNext]_vars

(***************************************************************************)
(* Maintenance of the rules, as the seeding commands and the admin site do  *)
(* it: a rule is created, PricingRuleCondition rows are attached to it or   *)
(* deleted, and calculate_score is called on it; calculate_price runs on    *)
(* the table as it stands.  Maintenance happens between calls, never        *)
(* during one.                                                              *)
(***************************************************************************)
\* the conditions an editor attaches
ConditionPool ==
    { Cond("code", "EQ", "99213"), Cond("code", "GT", "99000"),
      Cond("modifier", "EQ", "50"), Cond("rev_code", "EQ", "0278"),
      Cond("provider_id", "EQ", "AHN"), Cond("network_status", "EQ", "OON") }

\* the row PricingRule.objects.create(...) inserts: no condition yet, and
\* specificity_score at its default
NewRule(status) ==
    Rule("r1", 1, "BASE", "FLAT_RATE", NullStr, None, Dec(5000, 2), None,
         status, 1, NoDate, << >>)

\* the table after row r has been replaced by row r2
Replaced(r, r2) == (db_rules \ {r}) \cup {r2}

MaintenanceInit ==
    /\ db_contracts = StandardContracts
    /\ db_rules = {r \in SeededRules : r.pricing_rule_id = "office"}
    /\ claim_data \in {c \in Claims : Get(c, "code", NullStr) = "99213"}
    /\ now = 1
    /\ first_result = << >>
    /\ pc = "start"
    /\ logs = << >>
    /\ rule_applied = NullStr
    /\ final_price = Zero
    /\ contract = {}
    /\ rules = << >>
    /\ idx = 1
    /\ total_price = Zero
    /\ base_rule_applied = FALSE
    /\ result = << >>

call == <<pc, logs, rule_applied, final_price, contract, rules, idx, total_price,
          base_rule_applied, result>>

\* PricingRule.objects.create(..., status=...)
CreateRule ==
    /\ pc = "start"
    /\ \A r \in db_rules : r.pricing_rule_id # "r1"
    /\ \E status \in {"ACTIVE", "DRAFT"} : db_rules' = db_rules \cup {NewRule(status)}
    /\ UNCHANGED <<db_contracts, claim_data, history, call>>

\* PricingRuleCondition.objects.create(pricing_rule=rule, ...), or a row
\* added in the ConditionInline of the admin page of the rule
AddCondition ==
    /\ pc = "start"
    /\ \E r \in db_rules, c \in ConditionPool :
          /\ r.pricing_rule_id = "r1"
          /\ Len(r.conditions) < MaxConditions
          /\ db_rules' = Replaced(r, [r EXCEPT !.conditions = Append(@, c)])
    /\ UNCHANGED <<db_contracts, claim_data, history, call>>

\* a row deleted in the ConditionInline
RemoveCondition ==
    /\ pc = "start"
    /\ \E r \in db_rules :
          /\ r.pricing_rule_id = "r1"
          /\ \E i \in DOMAIN r.conditions :
                db_rules' = Replaced(r, [r EXCEPT !.conditions =
                                SubSeq(@, 1, i - 1) \o SubSeq(@, i + 1, Len(@))])
    /\ UNCHANGED <<db_contracts, claim_data, history, call>>

\* rule.calculate_score(): self.specificity_score = score; self.save()
CalculateScore(r) ==
    /\ pc = "start"
    /\ r \in db_rules
    /\ db_rules' = Replaced(r, [r EXCEPT !.specificity_score = calculate_score(r.conditions)])
    /\ UNCHANGED <<db_contracts, claim_data, history, call>>

MaintenanceNext ==
    \/ CreateRule
    \/ AddCondition
    \/ RemoveCondition
    \/ \E r \in db_rules : CalculateScore(r)
    \/ Begin
    \/ ContractFound
    \/ Iterate
    \/ Finish

MaintenanceSpec == MaintenanceInit /\ [][MaintenanceNext]_vars

(***************************************************************************)
(* The call on a table that holds, next to rules in force, rules the query  *)
(* has to leave out: of every status, not yet effective, expired, and of    *)
(* another provider's contract; among the rules in force, one whose         *)
(* methodology has no fee schedule to look up.                              *)
(***************************************************************************)
FilterContracts ==
    {Contract(1, "AHN", "ACTIVE", 1, NoDate), Contract(4, "UPMC", "ACTIVE", 1, NoDate)}

FilterRules ==
    {r \in RuleCatalogue :
        r.pricing_rule_id \in {"visit", "office", "supply", "draft", "lapsed"}}
    \cup
    { Rule("retired", 1, "ADD_ON", "FLAT_RATE", NullStr, None, Dec(7700, 2), None,
           "RETIRED", 1, NoDate, << >>),
      Rule("future", 1, "ADJUSTMENT", "FLAT_RATE", NullStr, Dec(20000, 4), None, None,
           "ACTIVE", 5, NoDate, << >>),
      Rule("foreign", 4, "BASE", "FLAT_RATE", NullStr, None, Dec(5000, 2), None,
           "ACTIVE", 1, NoDate, <<Cond("code", "EQ", "99213"), Cond("modifier", "EQ", "50")>>),
      Rule("unpriced", 1, "BASE", "RBRVS", NullStr, Dec(150, 2), None, None,
           "ACTIVE", 1, NoDate,
           <<Cond("code", "EQ", "99213"), Cond("network_status", "EQ", "OON")>>) }

FilterInit ==
    /\ db_contracts = FilterContracts
    /\ db_rules \in SubsetsUpTo(FilterRules, MaxRules)
    /\ claim_data \in {c \in Claims : Get(c, "code", NullStr) = "99213"}
    /\ now = 1
    /\ first_result = << >>
    /\ pc = "start"
    /\ logs = << >>
    /\ rule_applied = NullStr
    /\ final_price = Zero
    /\ contract = {}
    /\ rules = << >>
    /\ idx = 1
    /\ total_price = Zero
    /\ base_rule_applied = FALSE
    /\ result = << >>

FilterNext ==
    \/ Begin
    \/ ContractFound
    \/ Iterate
    \/ Finish

FilterSpec == FilterInit /\ [][FilterNext]_vars

(***************************************************************************)
(* Vocabulary of the properties.                                           *)
(***************************************************************************)
\* the call is in or past the loop
InLoop == pc \in {"loop", "done"} /\ contract # {}
\* the call returned trace.to_dict() / the dict of the except-handler
NormalReturn == pc = "done" /\ "rule_applied" \in DOMAIN result
FaultReturn == pc = "done" /\ "status" \in DOMAIN result
\* the rules whose iteration completed, in order
Processed == SubSeq(rules, 1, idx - 1)

Matched(r) == check_conditions(r, claim_data)
MatchedOfType(r, type) == r.rule_type = type /\ Matched(r)

\* positions of seq that hold a matching rule of the type
PositionsOf(seq, type) == {i \in DOMAIN seq : MatchedOfType(seq[i], type)}
Least(S) == CHOOSE i \in S : \A j \in S : i <= j

\* number of trace records of a step kind and message
CountLogs(trace, step, text) ==
    Cardinality({i \in DOMAIN trace : trace[i].step = step /\ trace[i].text = text})
LastStep(trace) == trace[Len(trace)].step

\* the claim's billed amount as STOP_LOSS reads it
BilledText == Get(claim_data, "billed_amount", "0")

(***************************************************************************)
(* C1.  calculate_price never raises to its caller, and a failure inside    *)
(* the call ends in the fault result: no state has the exception leave the  *)
(* call; every return carries an amount and a trace; a call whose loop      *)
(* stopped before its last rule returned status ERROR, amount 0 and a trace *)
(* ending in CRITICAL; and a call that returned normally met none of the    *)
(* failures: no matching STOP_LOSS rule with an unparsable billed amount or *)
(* (above its threshold) a null multiplier, no matching ADD_ON and no       *)
(* first matching BASE with a null flat_rate under FLAT_RATE/PER_DIEM/DRG   *)
(* or with non-integer units under PER_DIEM.                                *)
(***************************************************************************)
NullFlatRateFails(r) ==
    /\ r.flat_rate = None
    /\ \/ r.methodology \in {"FLAT_RATE", "PER_DIEM"}
       \/ /\ r.methodology = "DRG"
          /\ <<r.base_fee_schedule, Get(claim_data, "code", NullStr)>>
                \in DOMAIN FeeScheduleRates

BadUnitsFails(r) ==
    r.methodology = "PER_DIEM" /\ Get(claim_data, "units", "1") \notin IntegerText

StopLossFails(r) ==
    \/ BilledText \notin DOMAIN NumericText
    \/ /\ r.multiplier = None
       /\ DGt(NumericText[BilledText],
              IF r.threshold_amount = None THEN Zero ELSE r.threshold_amount)

MustFail(seq, i) ==
    /\ Matched(seq[i])
    /\ \/ seq[i].rule_type = "STOP_LOSS" /\ StopLossFails(seq[i])
       \/ /\ \/ seq[i].rule_type = "ADD_ON"
             \/ /\ seq[i].rule_type = "BASE"
                /\ i = Least(PositionsOf(seq, "BASE"))
          /\ (NullFlatRateFails(seq[i]) \/ BadUnitsFails(seq[i]))

C1_NeverRaises ==
    /\ pc # "raised"
    /\ pc = "done" => {"allowed_amount", "trace"} \subseteq DOMAIN result
    /\ (pc = "done" /\ contract # {} /\ idx <= Len(rules)) =>
          /\ FaultReturn
          /\ result.status = "ERROR"
          /\ result.allowed_amount = Zero
          /\ LastStep(result.trace) = "CRITICAL"
    /\ NormalReturn => \A i \in DOMAIN rules : ~MustFail(rules, i)

\* an unparsable billed amount reached a STOP_LOSS rule after an amount had
\* been accumulated, and the call returned the fault result
C1_Witness ==
    /\ FaultReturn
    /\ result.error_message = "InvalidOperation"
    /\ total_price # Zero
    /\ rules[idx].rule_type = "STOP_LOSS"

(***************************************************************************)
(* The accumulator loop as a function: the loop state after the rules of    *)
(* seq have been applied in order, from acc (up to the first that raises).  *)
(***************************************************************************)
RECURSIVE Accumulate(_, _, _)
Accumulate(seq, claim, acc) ==
    IF seq = << >> THEN acc
    ELSE LET out == ApplyRule(Head(seq), claim, acc) IN
         IF out.exc # "" THEN acc
         ELSE Accumulate(Tail(seq), claim, out.acc)

InitialAcc == Acc(Zero, FALSE, NullStr)

\* seq without its matching BASE rules other than the first one
RECURSIVE DropLaterBases(_, _)
DropLaterBases(seq, seen) ==
    IF seq = << >> THEN << >>
    ELSE IF MatchedOfType(Head(seq), "BASE")
         THEN (IF seen THEN << >> ELSE <<Head(seq)>>) \o DropLaterBases(Tail(seq), TRUE)
         ELSE <<Head(seq)>> \o DropLaterBases(Tail(seq), seen)

(***************************************************************************)
(* C2.  BASE exclusivity.  Among the matching BASE rules whose iteration    *)
(* has completed, exactly the first in iteration order (one of highest      *)
(* specificity score) has been added and is the applied rule: there is one  *)
(* "[BASE] Added" record, carrying that rule's amount; every other one      *)
(* left a SKIP record and nothing in the total (the total is what the loop  *)
(* yields with those rules removed); the applied-rule identifier stays that *)
(* of the first one, and is the one returned.                               *)
(***************************************************************************)
C2_BaseExclusive ==
    InLoop =>
      LET bases == PositionsOf(Processed, "BASE") IN
      /\ base_rule_applied = (bases # {})
      /\ CountLogs(logs, "ACCUM", "[BASE] Added") = (IF bases = {} THEN 0 ELSE 1)
      /\ CountLogs(logs, "SKIP", "Higher score Base already applied")
            = (IF bases = {} THEN 0 ELSE Cardinality(bases) - 1)
      /\ total_price
            = Accumulate(DropLaterBases(Processed, FALSE), claim_data, InitialAcc).total_price
      /\ IF bases = {} THEN rule_applied = NullStr
         ELSE LET first == Processed[Least(bases)] IN
              /\ rule_applied = first.pricing_rule_id
              /\ \A j \in bases : first.specificity_score >= Processed[j].specificity_score
              /\ \A i \in DOMAIN logs :
                    (logs[i].step = "ACCUM" /\ logs[i].text = "[BASE] Added")
                       => logs[i].args[2] = calculate_math(first, claim_data).price
      /\ NormalReturn => result.rule_applied = rule_applied

\* three BASE rules match one claim: one is applied, two are skipped
C2_Witness ==
    /\ NormalReturn
    /\ Cardinality(PositionsOf(rules, "BASE")) = 3
    /\ CountLogs(result.trace, "SKIP", "Higher score Base already applied") = 2
    /\ result.allowed_amount = Dec(12750, 2)

\* the matching rules of seq, in order
MatchingRules(seq) == SelectSeq(seq, Matched)
\* the running total after the first n rules of seq
TotalAfter(seq, n) ==
    Accumulate(SubSeq(seq, 1, n), claim_data, InitialAcc).total_price
\* the amount the methodology of a rule yields for the claim
PriceOf(r) == calculate_math(r, claim_data).price
HasPrice(r) == calculate_math(r, claim_data).exc = "" /\ PriceOf(r) # None

(***************************************************************************)
(* C3.  CAP rules never allow a final total to exceed their limit: when a   *)
(* matching CAP rule is reached with the running total above its flat_rate  *)
(* a LIMIT record is logged, and the amount returned by a call whose last   *)
(* rule is a matching CAP rule is not above that rule's flat_rate.          *)
(***************************************************************************)
C3_CapLimitsTotal ==
    NormalReturn =>
      /\ \A i \in PositionsOf(rules, "CAP") :
            (rules[i].flat_rate # None
               /\ DGt(TotalAfter(rules, i - 1), rules[i].flat_rate))
            => \E k \in DOMAIN logs : logs[k].step = "LIMIT"
      /\ (rules # << >> /\ MatchedOfType(rules[Len(rules)], "CAP")
            /\ rules[Len(rules)].flat_rate # None)
         => DLe(result.allowed_amount, rules[Len(rules)].flat_rate)

(***************************************************************************)
(* C4.  ADJUSTMENT is position-dependent: a matching ADJUSTMENT rule with   *)
(* multiplier m reached at running total t sets the total to t * m and logs *)
(* ADJUST; ranked directly below a BASE rule of amount b, as the only other *)
(* matching rule, the call returns b * m; ranked above every other matching *)
(* rule it leaves the returned amount what it is without the rule.          *)
(***************************************************************************)
C4_AdjustmentScalesRunningTotal ==
    NormalReturn =>
      LET matching == MatchingRules(rules) IN
      /\ \A i \in PositionsOf(rules, "ADJUSTMENT") :
            rules[i].multiplier # None =>
               TotalAfter(rules, i) = DMul(TotalAfter(rules, i - 1), rules[i].multiplier)
      /\ (Len(matching) = 2 /\ matching[1].rule_type = "BASE"
            /\ matching[2].rule_type = "ADJUSTMENT" /\ matching[2].multiplier # None
            /\ HasPrice(matching[1]))
         => /\ result.allowed_amount
                  = DMul(PriceOf(matching[1]), matching[2].multiplier)
            /\ CountLogs(logs, "ADJUST", "Multiplier") = 1
      /\ (matching # << >> /\ matching[1].rule_type = "ADJUSTMENT")
         => result.allowed_amount
               = Accumulate(Tail(matching), claim_data, InitialAcc).total_price

(***************************************************************************)
(* C5.  For a claim that matches one BASE rule and one ADJUSTMENT rule      *)
(* whose only condition is modifier EQ <value>, with a non-zero multiplier  *)
(* m, the amount returned is the BASE rule's amount times m, whatever the   *)
(* conditions of the BASE rule.                                             *)
(***************************************************************************)
IsModifierAdjustment(r) ==
    /\ r.rule_type = "ADJUSTMENT"
    /\ Len(r.conditions) = 1
    /\ r.conditions[1].attribute_name = "modifier"
    /\ r.conditions[1].operator = "EQ"
    /\ r.multiplier # None
    /\ r.multiplier # Zero

C5_ModifierScalesBase ==
    NormalReturn =>
      LET matching == MatchingRules(rules) IN
      \A b, a \in DOMAIN matching :
         (Len(matching) = 2 /\ matching[b].rule_type = "BASE" /\ HasPrice(matching[b])
            /\ IsModifierAdjustment(matching[a]))
         => result.allowed_amount = DMul(PriceOf(matching[b]), matching[a].multiplier)

\* the loop state after the first n rules of seq
AccAfter(seq, n) == Accumulate(SubSeq(seq, 1, n), claim_data, InitialAcc)

(***************************************************************************)
(* C6.  STOP_LOSS.  For every matching STOP_LOSS rule whose iteration       *)
(* completed: if the billed amount is strictly above the threshold (a null  *)
(* threshold counts as 0), (billed - threshold) * multiplier was added to   *)
(* the total and an OUTLIER record logged; otherwise nothing was added and  *)
(* a SKIP record logged.  With a $500 ADD_ON, threshold $10000 and          *)
(* multiplier 0.50 as the only matching rules: billed $10000 returns $500,  *)
(* billed $20000 returns $5500.                                             *)
(***************************************************************************)
ThresholdOf(r) == IF r.threshold_amount = None THEN Zero ELSE r.threshold_amount
ExcessPayment(r) ==
    DMul(DSub(NumericText[BilledText], ThresholdOf(r)), r.multiplier)
OverThreshold(r) == DGt(NumericText[BilledText], ThresholdOf(r))

C6_StopLoss ==
    /\ InLoop =>
         LET stops == PositionsOf(Processed, "STOP_LOSS")
             over == {i \in stops : OverThreshold(Processed[i])}
         IN
         /\ total_price = TotalAfter(Processed, Len(Processed))
         /\ CountLogs(logs, "OUTLIER", "Paying excess") = Cardinality(over)
         /\ CountLogs(logs, "SKIP", "Stop Loss threshold not met")
               = Cardinality(stops \ over)
         /\ \A i \in over :
               /\ TotalAfter(Processed, i)
                     = DAdd(TotalAfter(Processed, i - 1), ExcessPayment(Processed[i]))
               /\ \E k \in DOMAIN logs :
                     /\ logs[k].step = "OUTLIER"
                     /\ logs[k].args[3] = ExcessPayment(Processed[i])
         /\ \A i \in stops \ over :
               TotalAfter(Processed, i) = TotalAfter(Processed, i - 1)
    /\ (NormalReturn
          /\ {rules[i].pricing_rule_id : i \in {j \in DOMAIN rules : Matched(rules[j])}}
                = {"implant", "stoploss"})
       => /\ BilledText = "10000.00" => result.allowed_amount = Dec(50000, 2)
          /\ BilledText = "20000.00" => result.allowed_amount = Dec(550000, 2)

\* billed $20000 against the $500 add-on and the $10000 / 0.50 stop-loss
C6_Witness ==
    /\ NormalReturn
    /\ BilledText = "20000.00"
    /\ Len(rules) = 2
    /\ PositionsOf(rules, "STOP_LOSS") # {}
    /\ PositionsOf(rules, "ADD_ON") # {}
    /\ CountLogs(result.trace, "OUTLIER", "Paying excess") = 1
    /\ result.allowed_amount = Dec(550000, 2)

(***************************************************************************)
(* C7.  ADD_ON is cumulative and independent of the base slot.  Every       *)
(* matching ADD_ON rule whose iteration completed added its methodology     *)
(* amount to the total and logged an ACCUM record, with the base slot free  *)
(* or filled, and left the base-slot flag and the applied-rule identifier   *)
(* as they were: the flag is set exactly when a matching BASE rule was      *)
(* processed, and the applied rule is never an ADD_ON rule.                 *)
(***************************************************************************)
C7_AddOnCumulative ==
    InLoop =>
      LET addons == PositionsOf(Processed, "ADD_ON") IN
      /\ CountLogs(logs, "ACCUM", "[ADD-ON] Added") = Cardinality(addons)
      /\ \A i \in addons :
            LET before == AccAfter(Processed, i - 1)
                after == AccAfter(Processed, i)
            IN /\ after.total_price = DAdd(before.total_price, PriceOf(Processed[i]))
               /\ after.base_rule_applied = before.base_rule_applied
               /\ after.rule_applied = before.rule_applied
      /\ base_rule_applied = (PositionsOf(Processed, "BASE") # {})
      /\ \A i \in addons : rule_applied # Processed[i].pricing_rule_id
      /\ AccAfter(Processed, Len(Processed))
            = Acc(total_price, base_rule_applied, rule_applied)

\* an ADD_ON rule is added after a BASE rule has filled the base slot
C7_Witness ==
    /\ NormalReturn
    /\ \E i \in PositionsOf(rules, "BASE"), j \in PositionsOf(rules, "ADD_ON") :
          /\ i < j
          /\ result.rule_applied = rules[i].pricing_rule_id
          /\ result.allowed_amount = DAdd(PriceOf(rules[i]), PriceOf(rules[j]))
    /\ CountLogs(result.trace, "ACCUM", "[ADD-ON] Added") = 1

(***************************************************************************)
(* C8.  When a contract resolves and no applicable rule's conditions match  *)
(* the claim, the call returns allowed amount 0 and a null applied rule,    *)
(* and its trace ends with the STOP step "No applicable rules matched."     *)
(* and holds no SUCCESS and no CRITICAL step.                               *)
(***************************************************************************)
C8_NoMatchStops ==
    (pc = "done" /\ contract # {} /\ MatchingRules(rules) = << >>) =>
       /\ NormalReturn
       /\ result.allowed_amount = Zero
       /\ result.rule_applied = NullStr
       /\ LastStep(result.trace) = "STOP"
       /\ result.trace[Len(result.trace)].text = "No applicable rules matched."
       /\ \A k \in DOMAIN result.trace :
             result.trace[k].step \notin {"SUCCESS", "CRITICAL"}

\* applicable rules were fetched and none of them matches the claim
C8_Witness ==
    /\ pc = "done"
    /\ contract # {}
    /\ Len(rules) = 2
    /\ MatchingRules(rules) = << >>
    /\ LastStep(result.trace) = "STOP"

(***************************************************************************)
(* C9.  When no ACTIVE contract of the claim's provider covers the service  *)
(* date, calculate_price evaluates no rule, returns allowed amount 0 and a  *)
(* null applied rule, and its trace ends with the STOP step of the contract *)
(* lookup and holds no CRITICAL step.                                       *)
(***************************************************************************)
\* a contract of the organization, ACTIVE, whose effective range covers the date
CoversClaim(c) ==
    /\ c.provider_org = provider_id
    /\ c.status = "ACTIVE"
    /\ c.effective_start_date <= dos
    /\ (c.effective_end_date = NoDate \/ c.effective_end_date >= dos)

C9_NoContractStops ==
    (pc = "done" /\ ~\E c \in db_contracts : CoversClaim(c)) =>
       /\ rules = << >>
       /\ idx = 1
       /\ NormalReturn
       /\ result.allowed_amount = Zero
       /\ result.rule_applied = NullStr
       /\ LastStep(result.trace) = "STOP"
       /\ result.trace[Len(result.trace)].text
             = "No Active Contract found for this Provider/DOS."
       /\ \A k \in DOMAIN result.trace :
             result.trace[k].step \notin {"ACCUM", "ADJUST", "OUTLIER", "CRITICAL"}

(***************************************************************************)
(* C10.  The contract the resolver returns belongs to the claim's           *)
(* organization, has status ACTIVE, and its effective range covers the      *)
(* service date: a contract whose effective_end_date is before the service  *)
(* date is never used to price the claim.                                   *)
(***************************************************************************)
C10_ContractCoversServiceDate ==
    \A c \in contract : CoversClaim(c)

(***************************************************************************)
(* C11.  Contract ambiguity.  When more than one ACTIVE contract of the     *)
(* claim's organization covers the service date, the call uses none of      *)
(* them: no rule is fetched or evaluated, the amount returned is 0, and the *)
(* trace holds the ERROR record "Multiple active contracts found.           *)
(* Ambiguous."; and that record is in no trace of a call for which no       *)
(* contract covers the service date.                                        *)
(***************************************************************************)
Covering == {c \in db_contracts : CoversClaim(c)}

AmbiguityLogged(trace) ==
    \E k \in DOMAIN trace :
        /\ trace[k].step = "ERROR"
        /\ trace[k].text = "Multiple active contracts found. Ambiguous."

C11_AmbiguityDistinct ==
    pc = "done" =>
       /\ Cardinality(Covering) > 1 =>
             /\ contract = {}
             /\ rules = << >>
             /\ idx = 1
             /\ NormalReturn
             /\ result.allowed_amount = Zero
             /\ AmbiguityLogged(result.trace)
       /\ Covering = {} => ~AmbiguityLogged(result.trace)

(***************************************************************************)
(* C12.  Determinism.  A second call of calculate_price with the same claim *)
(* on the same reference-data snapshot returns the allowed amount, the      *)
(* applied rule and the trace (the same steps with the same messages in the *)
(* same order) that the first call returned, also when applicable rules     *)
(* have equal specificity scores and although the second call is made later *)
(* than the first.                                                          *)
(***************************************************************************)
AppliedOf(res) == Get(res, "rule_applied", NullStr)
\* the steps and messages of a trace, without the time they were logged at
Content(trace) ==
    [k \in DOMAIN trace |-> <<trace[k].step, trace[k].text, trace[k].args>>]

C12_Deterministic ==
    (pc = "done" /\ first_result # << >>) =>
       /\ result.allowed_amount = first_result.allowed_amount
       /\ AppliedOf(result) = AppliedOf(first_result)
       /\ Content(result.trace) = Content(first_result.trace)

(***************************************************************************)
(* C13.  Every result is well-formed: it carries an allowed amount, an      *)
(* applied-rule identifier (possibly null), a trace and a status; the       *)
(* status is "ERROR" when the call ended in the except-handler (its trace   *)
(* ends with CRITICAL) and "OK" otherwise; and the result of a call that    *)
(* found no active contract has allowed amount 0 and status "OK".           *)
(***************************************************************************)
C13_ResultWellFormed ==
    pc = "done" =>
       /\ {"allowed_amount", "rule_applied", "trace", "status"} \subseteq DOMAIN result
       /\ result.status = (IF LastStep(result.trace) = "CRITICAL" THEN "ERROR" ELSE "OK")
       /\ contract = {} => (result.allowed_amount = Zero /\ result.status = "OK")

(***************************************************************************)
(* C14.  The methodology calculator agrees with the formula table.  For a   *)
(* rule that matches the claim and inputs that are valid (the parameters    *)
(* the formula reads are present, units is a non-negative integer, the      *)
(* billed amount is a number, the fee schedule holds the claim's code) the  *)
(* call returns: FLAT_RATE flat_rate; PER_DIEM flat_rate * units, units 1   *)
(* when absent; RBRVS rate * multiplier, a missing multiplier counting as   *)
(* 1; DRG flat_rate * weight; PERCENT_BILLED billed_amount * multiplier.    *)
(* E.g. 85.00 * 1.50 = 127.50, 1250.00 * 3 = 3750.00, 10000.00 * 2.05 =     *)
(* 20500.00, 1000.00 * 0.45 = 450.00.                                       *)
(***************************************************************************)
UnitsText == Get(claim_data, "units", "1")
BilledAmountText == Get(claim_data, "billed_amount", "0.00")
CodeText == Get(claim_data, "code", NullStr)
HasRate(r) == <<r.base_fee_schedule, CodeText>> \in DOMAIN FeeScheduleRates
RateOf(r) == FeeScheduleRates[<<r.base_fee_schedule, CodeText>>]

ValidInputs(r) ==
    CASE r.methodology = "FLAT_RATE" -> r.flat_rate # None
      [] r.methodology = "PER_DIEM" ->
            /\ r.flat_rate # None
            /\ UnitsText \in IntegerText
            /\ NumericText[UnitsText][1] >= 0
      [] r.methodology = "RBRVS" -> HasRate(r)
      [] r.methodology = "DRG" -> r.flat_rate # None /\ HasRate(r)
      [] r.methodology = "PERCENT_BILLED" ->
            r.multiplier # None /\ BilledAmountText \in DOMAIN NumericText
      [] OTHER -> FALSE

TableAmount(r) ==
    CASE r.methodology = "FLAT_RATE" -> r.flat_rate
      [] r.methodology = "PER_DIEM" -> DMul(r.flat_rate, NumericText[UnitsText])
      [] r.methodology = "RBRVS" ->
            DMul(RateOf(r), IF r.multiplier = None THEN Dec(1, 0) ELSE r.multiplier)
      [] r.methodology = "DRG" -> DMul(r.flat_rate, RateOf(r))
      [] r.methodology = "PERCENT_BILLED" ->
            DMul(NumericText[BilledAmountText], r.multiplier)

\* the amount a rule of the catalogue yields for the claim, when asked for
Example(id, amount) ==
    (rules[1].pricing_rule_id = id /\ Matched(rules[1])) => result.price = amount

C14_MathTable ==
    pc = "calculated" =>
       /\ (Matched(rules[1]) /\ ValidInputs(rules[1])) =>
             /\ result.exc = ""
             /\ result.price = TableAmount(rules[1])
       /\ Example("visit", Dec(12750, 2))
       /\ UnitsText = "3" => Example("psych", Dec(375000, 2))
       /\ Example("drg", Dec(2050000, 2))
       /\ BilledAmountText = "1000.00" => Example("unlisted", Dec(45000, 2))

(***************************************************************************)
(* C15.  A call of calculate_score on a rule stores, as its                 *)
(* specificity_score, the sum over the rule's conditions of 1000 for code   *)
(* with EQ, 100 for code with another operator, 500 for modifier, 10 for    *)
(* rev_code, 5 for provider_id and 0 for any other attribute; the value is  *)
(* a natural number; the call changes nothing else; and on a rule whose     *)
(* stored score is already that sum (calculate_score was called and the     *)
(* conditions are as they were) it changes nothing at all.                  *)
(***************************************************************************)
Weight(cond) ==
    CASE cond.attribute_name = "code" /\ cond.operator = "EQ" -> 1000
      [] cond.attribute_name = "code" /\ cond.operator # "EQ" -> 100
      [] cond.attribute_name = "modifier" -> 500
      [] cond.attribute_name = "rev_code" -> 10
      [] cond.attribute_name = "provider_id" -> 5
      [] OTHER -> 0

RECURSIVE WeightSum(_)
WeightSum(conds) ==
    IF conds = << >> THEN 0 ELSE Weight(conds[1]) + WeightSum(Tail(conds))

C15_ScoreIsWeightSum ==
    [][ \A r \in db_rules :
          CalculateScore(r) =>
             /\ db_rules' = Replaced(r, [r EXCEPT !.specificity_score = WeightSum(r.conditions)])
             /\ WeightSum(r.conditions) \in Nat
             /\ r.specificity_score = WeightSum(r.conditions) => db_rules' = db_rules
      ]_vars

\* a rule with a range condition on code and a condition of weight 0 has
\* been scored
C15_Witness ==
    \E r \in db_rules :
       /\ r.conditions = <<Cond("code", "GT", "99000"), Cond("network_status", "EQ", "OON")>>
       /\ r.specificity_score = 100

(***************************************************************************)
(* C16.  PER_DIEM with invalid units is a local error.  When the claim's    *)
(* units is not a non-negative integer, a matching BASE or ADD_ON rule with *)
(* methodology PER_DIEM adds 0 to the total, and the call does not end in   *)
(* the except-handler at that rule: the rules after it are evaluated.       *)
(***************************************************************************)
UnitsNotInteger == UnitsText \notin IntegerText
UnitsNegative == UnitsText \in IntegerText /\ NumericText[UnitsText][1] < 0
IsPerDiem(r) ==
    /\ Matched(r)
    /\ r.methodology = "PER_DIEM"
    /\ r.rule_type \in {"BASE", "ADD_ON"}

C16_PerDiemInvalidUnitsLocal ==
    (InLoop /\ (UnitsNotInteger \/ UnitsNegative)) =>
       /\ \A i \in DOMAIN Processed :
             IsPerDiem(Processed[i]) =>
                TotalAfter(Processed, i) = TotalAfter(Processed, i - 1)
       /\ (pc = "done" /\ idx <= Len(rules) /\ UnitsNotInteger) => ~IsPerDiem(rules[idx])

(***************************************************************************)
(* C17.  The condition evaluator returns true exactly when every condition  *)
(* of the rule holds of the claim (so a rule without conditions matches),   *)
(* where a condition holds when the claim has a value for its attribute     *)
(* (network_status counts as "INN" when the claim lacks it; any other       *)
(* lacking attribute fails the condition) and: EQ, the value equals the     *)
(* rule's value as text; IN, the value is one of the elements of the rule's *)
(* value split on ','; GT / LT, both are numbers and the claim's is the     *)
(* greater / the lesser (false, not an exception, when one is no number).   *)
(***************************************************************************)
HasValue(cond) ==
    cond.attribute_name = "network_status" \/ cond.attribute_name \in DOMAIN claim_data

ValueFor(cond) ==
    IF cond.attribute_name \in DOMAIN claim_data THEN claim_data[cond.attribute_name]
    ELSE "INN"

IsNumber(text) == text \in DOMAIN NumericText

Holds(cond) ==
    /\ HasValue(cond)
    /\ LET v == ValueFor(cond)
           w == cond.attribute_value
       IN CASE cond.operator = "EQ" -> v = w
            [] cond.operator = "IN" -> v \in SplitComma(w)
            [] cond.operator = "GT" ->
                  IsNumber(v) /\ IsNumber(w) /\ DGt(NumericText[v], NumericText[w])
            [] cond.operator = "LT" ->
                  IsNumber(v) /\ IsNumber(w) /\ DGt(NumericText[w], NumericText[v])

C17_ConditionEvaluator ==
    pc = "checked" =>
       /\ result.matched \in BOOLEAN
       /\ result.matched
             = (\A i \in DOMAIN rules[1].conditions : Holds(rules[1].conditions[i]))

\* a network_status EQ INN rule was evaluated on a claim without
\* network_status, and matched
C17_Witness ==
    /\ pc = "checked"
    /\ rules[1].conditions = <<Cond("network_status", "EQ", "INN")>>
    /\ "network_status" \notin DOMAIN claim_data
    /\ result.matched

(***************************************************************************)
(* C18.  A fee-schedule lookup miss is local to one rule.  A matching BASE  *)
(* or ADD_ON rule with methodology RBRVS or DRG that has no fee schedule,   *)
(* or whose fee schedule has no rate for the claim's code, adds exactly 0   *)
(* to the total; each such rule that is computed leaves one ERROR record;   *)
(* the call never ends in the except-handler at such a rule, so the rules   *)
(* after it are evaluated; and a call none of whose rules fails for another *)
(* reason evaluates every rule and returns without a CRITICAL record and    *)
(* without status ERROR.                                                    *)
(***************************************************************************)
LookupMiss(r) ==
    /\ Matched(r)
    /\ r.rule_type \in {"BASE", "ADD_ON"}
    /\ r.methodology \in {"RBRVS", "DRG"}
    /\ (r.base_fee_schedule = NullStr \/ ~HasRate(r))

\* the positions of seq whose rule's amount is computed: every matching
\* ADD_ON rule and the first matching BASE rule
Computed(seq) ==
    {i \in DOMAIN seq :
        \/ MatchedOfType(seq[i], "ADD_ON")
        \/ MatchedOfType(seq[i], "BASE") /\ i = Least(PositionsOf(seq, "BASE"))}

LookupErrors(trace) ==
    {k \in DOMAIN trace :
        /\ trace[k].step = "ERROR"
        /\ trace[k].text \in {"Rule missing base fee schedule",
                              "Code not found in Fee Schedule",
                              "Rule missing base fee schedule for DRG lookup.",
                              "DRG Weight not found in Fee Schedule."}}

C18_LookupMissLocal ==
    InLoop =>
       /\ \A i \in DOMAIN Processed :
             LookupMiss(Processed[i]) =>
                TotalAfter(Processed, i) = TotalAfter(Processed, i - 1)
       /\ Cardinality(LookupErrors(logs))
             = Cardinality({i \in Computed(Processed) : LookupMiss(Processed[i])})
       /\ (pc = "done" /\ idx <= Len(rules)) => ~LookupMiss(rules[idx])
       /\ (pc = "done" /\ \A i \in DOMAIN rules : ~MustFail(rules, i)) =>
             /\ idx = Len(rules) + 1
             /\ NormalReturn
             /\ \A k \in DOMAIN result.trace : result.trace[k].step # "CRITICAL"

\* a BASE rule without fee schedule added 0 and logged ERROR, and the add-on
\* ranked after it was still added
C18_Witness ==
    /\ NormalReturn
    /\ Len(rules) = 2
    /\ LookupMiss(rules[1])
    /\ rules[1].rule_type = "BASE"
    /\ MatchedOfType(rules[2], "ADD_ON")
    /\ Cardinality(LookupErrors(result.trace)) = 1
    /\ result.allowed_amount = Dec(2500, 2)
    /\ LastStep(result.trace) = "SUCCESS"

(***************************************************************************)
(* C19.  Score freshness.  In every state reached by creating a rule,       *)
(* attaching and deleting its conditions and calling calculate_score, each  *)
(* rule with status ACTIVE has a stored specificity_score equal to the      *)
(* weight sum of its current conditions; and no call of calculate_price     *)
(* ranks a rule whose stored score is not that sum without a WARN or ERROR  *)
(* record in its trace.                                                     *)
(***************************************************************************)
Fresh(r) == r.specificity_score = WeightSum(r.conditions)

C19_ScoreFresh ==
    /\ \A r \in db_rules : r.status = "ACTIVE" => Fresh(r)
    /\ InLoop =>
          \A i \in DOMAIN rules :
             ~Fresh(rules[i]) => \E k \in DOMAIN logs : logs[k].step \in {"WARN", "ERROR"}

(***************************************************************************)
(* C20.  For a matching BASE or ADD_ON rule whose numeric parameters (the   *)
(* flat_rate or multiplier its methodology reads, and the fee-schedule      *)
(* rate) are present and non-negative, and for every claim, the methodology *)
(* calculator returns an amount, and the amount is not negative, whatever   *)
(* the claim's units and billed_amount.                                     *)
(***************************************************************************)
NonNegative(d) == d # None /\ d[1] >= 0

ParametersNonNegative(r) ==
    CASE r.methodology \in {"FLAT_RATE", "PER_DIEM", "DRG"} -> NonNegative(r.flat_rate)
      [] r.methodology = "RBRVS" -> r.multiplier = None \/ NonNegative(r.multiplier)
      [] r.methodology = "PERCENT_BILLED" -> NonNegative(r.multiplier)
      [] OTHER -> TRUE

C20_AmountNonNegative ==
    (pc = "calculated" /\ Matched(rules[1])
        /\ rules[1].rule_type \in {"BASE", "ADD_ON"}
        /\ ParametersNonNegative(rules[1])) =>
       /\ result.exc = ""
       /\ NonNegative(result.price)

(***************************************************************************)
(* C21.  Rule filtering and order.  The rules the loop evaluates are the    *)
(* rules of the resolved contract with status ACTIVE, effective_start_date  *)
(* not after the date of service and effective_end_date absent or not       *)
(* before it, each once, in non-increasing specificity-score order; and the *)
(* total, the base-slot flag, the applied rule and the trace are what those *)
(* rules alone produce: a DRAFT, RETIRED, not yet effective or expired      *)
(* rule, or a rule of another contract, changes none of them.               *)
(***************************************************************************)
InForce(r) ==
    /\ \E c \in contract : r.contract = c.contract_id
    /\ r.status = "ACTIVE"
    /\ r.effective_start_date <= dos
    /\ (r.effective_end_date = NoDate \/ r.effective_end_date >= dos)

\* the trace records the rules of seq leave when applied in order from acc
RECURSIVE TraceOf(_, _, _)
TraceOf(seq, claim, acc) ==
    IF seq = << >> THEN << >>
    ELSE LET out == ApplyRule(Head(seq), claim, acc) IN
         IF out.exc # "" THEN out.logs
         ELSE out.logs \o TraceOf(Tail(seq), claim, out.acc)

\* the trace records a call logs before its loop
Preamble ==
    <<Entry("INIT", "Pricing Claim for Provider", <<provider_id>>)>>
    \o [i \in 1..Cardinality(contract) |->
          Entry("CONTRACT", "Using Contract", <<(CHOOSE c \in contract : TRUE).contract_id>>)]
    \o (IF rules = << >> THEN <<Entry("WARN", "No rules found.", << >>)>> ELSE << >>)

C21_OnlyRulesInForce ==
    InLoop =>
       /\ {rules[i] : i \in DOMAIN rules} = {r \in db_rules : InForce(r)}
       /\ Len(rules) = Cardinality({r \in db_rules : InForce(r)})
       /\ \A i, j \in DOMAIN rules :
             i < j => rules[i].specificity_score >= rules[j].specificity_score
       /\ \A i \in DOMAIN Processed : InForce(Processed[i])
       /\ pc = "loop" =>
             /\ Acc(total_price, base_rule_applied, rule_applied)
                   = AccAfter(Processed, Len(Processed))
             /\ logs = Preamble \o TraceOf(Processed, claim_data, InitialAcc)

\* a table with a DRAFT rule that would match and an expired one, priced by
\* the one rule in force
C21_Witness ==
    /\ NormalReturn
    /\ Len(rules) = 1
    /\ \E r \in db_rules : r.status = "DRAFT" /\ Matched(r)
    /\ \E r \in db_rules : r.effective_end_date # NoDate /\ r.effective_end_date < dos
    /\ result.rule_applied = "visit"
    /\ result.allowed_amount = Dec(12750, 2)

(***************************************************************************)
(* C22.  A BASE rule priced 0 by a lookup miss still takes the base slot.   *)
(* When the first matching BASE rule whose iteration completed is a lookup  *)
(* miss (RBRVS or DRG without fee schedule or without a rate for the code): *)
(* the base slot is filled and the rule is the applied rule; its record is  *)
(* the only "[BASE] Added" record and carries the amount 0; every matching  *)
(* BASE rule ranked after it left one "Higher score Base already applied"   *)
(* SKIP record and the total unchanged; and a call that returns normally    *)
(* with a total of 0 ends with SUCCESS, allowed amount 0 and that applied   *)
(* rule, and has no STOP record.                                            *)
(***************************************************************************)
BaseRecords(trace) ==
    {k \in DOMAIN trace : trace[k].step = "ACCUM" /\ trace[k].text = "[BASE] Added"}

C22_ZeroBaseTakesSlot ==
    InLoop =>
       \A i \in DOMAIN Processed :
          ( /\ PositionsOf(Processed, "BASE") # {}
            /\ i = Least(PositionsOf(Processed, "BASE"))
            /\ LookupMiss(Processed[i]) ) =>
             /\ base_rule_applied
             /\ rule_applied = Processed[i].pricing_rule_id
             /\ Cardinality(BaseRecords(logs)) = 1
             /\ \A k \in BaseRecords(logs) :
                   logs[k].args = <<Processed[i].specificity_score, Zero>>
             /\ CountLogs(logs, "SKIP", "Higher score Base already applied")
                   = Cardinality({j \in PositionsOf(Processed, "BASE") : j > i})
             /\ \A j \in PositionsOf(Processed, "BASE") :
                   j > i => TotalAfter(Processed, j) = TotalAfter(Processed, j - 1)
             /\ (NormalReturn /\ total_price = Zero) =>
                   /\ LastStep(result.trace) = "SUCCESS"
                   /\ result.allowed_amount = Zero
                   /\ result.rule_applied = Processed[i].pricing_rule_id
                   /\ \A k \in DOMAIN result.trace : result.trace[k].step # "STOP"

\* an RBRVS BASE rule without fee schedule ranked before a BASE rule with a
\* price: the call returned SUCCESS with amount 0 and the first as applied rule
C22_Witness ==
    /\ NormalReturn
    /\ Len(rules) = 2
    /\ LookupMiss(rules[1])
    /\ MatchedOfType(rules[1], "BASE")
    /\ MatchedOfType(rules[2], "BASE")
    /\ HasPrice(rules[2])
    /\ PriceOf(rules[2]) # Zero
    /\ result.rule_applied = rules[1].pricing_rule_id
    /\ result.allowed_amount = Zero
    /\ LastStep(result.trace) = "SUCCESS"
    /\ CountLogs(result.trace, "SKIP", "Higher score Base already applied") = 1

(***************************************************************************)
(* C23.  Trace shape.  Every call that returned has a trace that starts     *)
(* with an INIT step and holds exactly one terminal step (STOP, SUCCESS or  *)
(* CRITICAL), which is its last step; the returned allowed amount is not 0  *)
(* only when that last step is SUCCESS, and is 0 when the last step is STOP *)
(* or CRITICAL, whatever had been accumulated before.                       *)
(***************************************************************************)
TerminalSteps == {"STOP", "SUCCESS", "CRITICAL"}

TerminalRecords(trace) == {k \in DOMAIN trace : trace[k].step \in TerminalSteps}

C23_TraceShape ==
    pc = "done" =>
       /\ result.trace = logs
       /\ Len(result.trace) >= 2
       /\ result.trace[1].step = "INIT"
       /\ TerminalRecords(result.trace) = {Len(result.trace)}
       /\ result.allowed_amount # Zero => LastStep(result.trace) = "SUCCESS"
       /\ LastStep(result.trace) \in {"STOP", "CRITICAL"} =>
             result.allowed_amount = Zero

\* an ADD_ON amount had been added when a later rule failed: the call
\* returned the amount 0 and a trace from INIT to CRITICAL
C23_Witness ==
    /\ FaultReturn
    /\ total_price # Zero
    /\ \E k \in DOMAIN result.trace :
          /\ result.trace[k].step = "ACCUM"
          /\ result.trace[k].text = "[ADD-ON] Added"
          /\ result.trace[k].args[2] # Zero
    /\ result.trace[1].step = "INIT"
    /\ LastStep(result.trace) = "CRITICAL"
    /\ result.allowed_amount = Zero

====
